---- MODULE Spec2Model ----
(***************************************************************************)
(* A model of the calculator's expression engine: Calculator               *)
(* (src/backend/calculator.py) and Grapher (src/backend/grapher.py), and   *)
(* of the state that CalculatorApp (src/frontend/gui.py) keeps about them. *)
(*                                                                         *)
(* Text is a sequence of one-character strings.  Numbers are exact         *)
(* rationals n/d of bounded magnitude; a value the model cannot pin down   *)
(* (an irrational sum, a number beyond the magnitude bound, a Python       *)
(* construct outside the modelled subset) is the marker Unmodelled, and    *)
(* the inputs are drawn only from texts whose evaluation never meets it.   *)
(***************************************************************************)
EXTENDS Integers, Sequences, FiniteSets, TLC

VARIABLES
    last_result,   \* Calculator.last_result
    expression,    \* the text handed to the calculator
    result,        \* what the calculator call returned or raised
    func_string,   \* the text handed to the grapher
    x_min,         \* lower end of the sampled domain
    x_max,         \* upper end of the sampled domain
    num_points,    \* number of sample points asked for
    x_value,       \* the point of a single Grapher.evaluate call
    plot,          \* what the grapher call returned or raised
    app,           \* CalculatorApp: the calculator panel's fields and text variables
    panel,         \* CalculatorApp: the graph panel's fields, entries and listbox
    event,         \* the last thing the user did in the window
    presses        \* how many things the user has done in the window

calcVars == <<last_result, expression, result>>
graphVars == <<func_string, x_min, x_max, num_points, x_value, plot>>
guiVars == <<app, panel, event, presses>>

vars == <<last_result, expression, result, func_string, x_min, x_max, num_points, x_value, plot,
          app, panel, event, presses>>

----------------------------------------------------------------------------
(* Bounds of the model *)

\* numerals 0..MaxNum fill the operand slots of the expression shapes
MaxNum == 4
\* free texts over the arithmetic alphabet have at most this many characters
MaxLen == 3
\* texts over the parenthesis alphabet have at most this many characters
MaxParenLen == 5
\* texts mixing allowed and disallowed characters have at most this many
MaxBadLen == 3
\* numerators and denominators stay within this magnitude
MaxMagnitude == 30000
\* generate_plot_data is asked for 0..MaxPoints points
MaxPoints == 3
\* free grapher bodies have at most this many characters
MaxBodyLen == 3
\* Calculator.divide is called with operands -MaxOperand..MaxOperand
MaxOperand == 2
\* the clicks, typings and calls in one run of the panel
MaxPresses == 3
\* the graph panel samples this many points where the program samples 500
PanelPoints == 3
\* the graph panel holds at most this many plotted functions
MaxFunctions == 2

----------------------------------------------------------------------------
(* Characters *)

Digits == <<"0", "1", "2", "3", "4", "5", "6", "7", "8", "9">>
DigitChars == {Digits[i] : i \in 1..10}
LowerLetters == {"a", "b", "c", "d", "e", "f", "g", "h", "i", "j", "k", "l", "m",
                 "n", "o", "p", "q", "r", "s", "t", "u", "v", "w", "x", "y", "z"}
UpperLetters == {"A", "B", "C", "D", "E", "F", "G", "H", "I", "J", "K", "L", "M",
                 "N", "O", "P", "Q", "R", "S", "T", "U", "V", "W", "X", "Y", "Z"}
Letters == LowerLetters \cup UpperLetters
Whitespace == {" "}

IsDigit(c) == c \in DigitChars
DigitValue(c) == (CHOOSE i \in 1..10 : Digits[i] = c) - 1

\* str.lower() on one character, for the letters the inputs use
LowerChar(c) ==
    CASE c = "F" -> "f"
      [] c = "X" -> "x"
      [] c = "P" -> "p"
      [] c = "I" -> "i"
      [] OTHER -> c

lower(s) == [i \in 1..Len(s) |-> LowerChar(s[i])]

\* s[from:] in Python, with from counted from 0
Drop(s, k) == IF k >= Len(s) THEN <<>> ELSE SubSeq(s, k + 1, Len(s))

\* s.startswith(p)
startswith(s, p) == Len(s) >= Len(p) /\ SubSeq(s, 1, Len(p)) = p

RECURSIVE lstripSet(_, _)
lstripSet(s, cs) ==
    IF s # <<>> /\ s[1] \in cs THEN lstripSet(Tail(s), cs) ELSE s

RECURSIVE rstripSet(_, _)
rstripSet(s, cs) ==
    IF s # <<>> /\ s[Len(s)] \in cs THEN rstripSet(SubSeq(s, 1, Len(s) - 1), cs) ELSE s

\* str.strip()
strip(s) == rstripSet(lstripSet(s, Whitespace), Whitespace)

\* str.replace(old, new) for a single character old
RECURSIVE replace(_, _, _)
replace(s, old, new) ==
    IF s = <<>> THEN <<>>
    ELSE (IF s[1] = old THEN new ELSE <<s[1]>>) \o replace(Tail(s), old, new)

\* re.sub(r'(A)(B)', r'\1*\2', s) for one-character classes A and B:
\* non-overlapping matches, leftmost first
RECURSIVE SubPair(_, _, _)
SubPair(s, A, B) ==
    IF Len(s) < 2 THEN s
    ELSE IF s[1] \in A /\ s[2] \in B
         THEN <<s[1], "*", s[2]>> \o SubPair(Drop(s, 2), A, B)
         ELSE <<s[1]>> \o SubPair(Tail(s), A, B)

\* the alternative of words, earliest alternative first, that s starts with
FirstWord(s, words) ==
    IF \E i \in 1..Len(words) : startswith(s, words[i])
    THEN words[CHOOSE i \in 1..Len(words) :
                 /\ startswith(s, words[i])
                 /\ \A j \in 1..(i - 1) : ~startswith(s, words[j])]
    ELSE <<>>

\* re.sub(r'(A)(w1|w2|...)', r'\1*\2', s)
RECURSIVE SubWord(_, _, _)
SubWord(s, A, words) ==
    IF Len(s) < 2 THEN s
    ELSE IF s[1] \in A /\ FirstWord(Tail(s), words) # <<>>
         THEN LET w == FirstWord(Tail(s), words)
              IN  <<s[1], "*">> \o w \o SubWord(Drop(s, 1 + Len(w)), A, words)
         ELSE <<s[1]>> \o SubWord(Tail(s), A, words)

----------------------------------------------------------------------------
(* Numbers: exact rationals n/d, d > 0, in lowest terms *)

Abs(n) == IF n < 0 THEN -n ELSE n

RECURSIVE Gcd(_, _)
Gcd(a, b) == IF b = 0 THEN a ELSE Gcd(b, a % b)

Unmodelled == [k |-> "unmodelled"]

InRange(n, d) == Abs(n) <= MaxMagnitude /\ d <= MaxMagnitude

\* the rational n/d, d # 0
Rat(n, d) ==
    LET g == Gcd(Abs(n), Abs(d))
        nn == (IF d < 0 THEN -n ELSE n) \div g
        dd == Abs(d) \div g
    IN  IF InRange(nn, dd) THEN [k |-> "num", n |-> nn, d |-> dd] ELSE Unmodelled

Whole(n) == [k |-> "num", n |-> n, d |-> 1]
Zero == Whole(0)
One == Whole(1)

IsNum(v) == v.k = "num"
IsZero(v) == v.k = "num" /\ v.n = 0
IsInteger(v) == v.k = "num" /\ v.d = 1
Sign(v) == IF v.n > 0 THEN 1 ELSE IF v.n < 0 THEN -1 ELSE 0

RAdd(a, b) == Rat(a.n * b.d + b.n * a.d, a.d * b.d)
RSub(a, b) == Rat(a.n * b.d - b.n * a.d, a.d * b.d)
RMul(a, b) == Rat(a.n * b.n, a.d * b.d)
\* a / b for b # 0
RDiv(a, b) == Rat(a.n * b.d, a.d * b.n)
RNeg(a) == [k |-> "num", n |-> -a.n, d |-> a.d]
RLess(a, b) == a.n * b.d < b.n * a.d
\* floor(a / b) for b # 0
RFloorDiv(a, b) ==
    LET q == RDiv(a, b)
    IN  IF q = Unmodelled THEN Unmodelled ELSE Whole(q.n \div q.d)

\* acc * a ** e for a natural number e, by repeated multiplication
RECURSIVE RPowAcc(_, _, _)
RPowAcc(acc, a, e) ==
    IF e = 0 THEN acc
    ELSE LET p == RMul(acc, a)
         IN  IF p = Unmodelled THEN Unmodelled ELSE RPowAcc(p, a, e - 1)

\* a ** e for a natural number e
RPowNat(a, e) ==
    IF e = 0 THEN One
    ELSE IF a.n = 0 THEN Zero
    ELSE IF Abs(a.n) = 1 /\ a.d = 1 THEN (IF a.n = -1 /\ e % 2 = 1 THEN Whole(-1) ELSE One)
    ELSE RPowAcc(One, a, e)

\* the exact square root of a natural number, or -1 when it has none
RECURSIVE IsqrtFrom(_, _)
IsqrtFrom(n, r) ==
    IF r * r = n THEN r ELSE IF r * r > n THEN -1 ELSE IsqrtFrom(n, r + 1)

Isqrt(n) == IsqrtFrom(n, 0)

----------------------------------------------------------------------------
(* Python values and the outcome of evaluating one *)

\* a finite irrational float the model does not pin down; s is its sign,
\* 0 when the sign is not known
Real(s) == [k |-> "real", s |-> s]
\* a complex number with a nonzero imaginary part
Complex == [k |-> "complex"]
TupleValue == [k |-> "tuple"]
Func(name) == [k |-> "func", name |-> name]

\* float infinity with its sign, and float NaN
Infinite(s) == [k |-> "inf", s |-> s]
NaN == [k |-> "nan"]
NonFinite(v) == v.k \in {"inf", "nan"}

IsArith(v) == v.k \in {"num", "real", "complex"}

Val(v) == IF v = Unmodelled THEN [t |-> "unmodelled"] ELSE [t |-> "val", v |-> v]
Exc(e) == [t |-> "exc", e |-> e]
Unm == [t |-> "unmodelled"]

\* a + b
PyAdd(a, b) ==
    IF ~IsArith(a) \/ ~IsArith(b)
    THEN (IF a.k = "tuple" /\ b.k = "tuple" THEN Unm ELSE Exc("TypeError"))
    ELSE IF IsNum(a) /\ IsNum(b) THEN Val(RAdd(a, b))
    ELSE IF a.k = "complex" /\ IsNum(b) THEN Val(Complex)
    ELSE IF IsNum(a) /\ b.k = "complex" THEN Val(Complex)
    ELSE IF a.k = "real" /\ IsNum(b)
         THEN Val(IF IsZero(b) \/ Sign(b) = a.s THEN a ELSE Real(0))
    ELSE IF IsNum(a) /\ b.k = "real"
         THEN Val(IF IsZero(a) \/ Sign(a) = b.s THEN b ELSE Real(0))
    ELSE Unm

\* -a
PyNeg(a) ==
    IF IsNum(a) THEN Val(RNeg(a))
    ELSE IF a.k = "real" THEN Val(Real(-a.s))
    ELSE IF a.k = "complex" THEN Val(Complex)
    ELSE Exc("TypeError")

\* +a
PyPos(a) == IF IsArith(a) THEN Val(a) ELSE Exc("TypeError")

\* a - b
PySub(a, b) ==
    IF ~IsArith(a) \/ ~IsArith(b) THEN Exc("TypeError")
    ELSE IF IsNum(a) /\ IsNum(b) THEN Val(RSub(a, b))
    ELSE PyAdd(a, PyNeg(b).v)

\* a * b
PyMul(a, b) ==
    IF ~IsArith(a) \/ ~IsArith(b)
    THEN (IF {a.k, b.k} = {"tuple", "num"} THEN Unm ELSE Exc("TypeError"))
    ELSE IF IsNum(a) /\ IsNum(b) THEN Val(RMul(a, b))
    ELSE IF a.k = "real" /\ IsNum(b)
         THEN Val(IF IsZero(b) THEN Zero ELSE Real(a.s * Sign(b)))
    ELSE IF IsNum(a) /\ b.k = "real"
         THEN Val(IF IsZero(a) THEN Zero ELSE Real(b.s * Sign(a)))
    ELSE IF a.k = "complex" /\ IsNum(b) /\ ~IsZero(b) THEN Val(Complex)
    ELSE IF IsNum(a) /\ ~IsZero(a) /\ b.k = "complex" THEN Val(Complex)
    ELSE Unm

\* a / b
PyTrueDiv(a, b) ==
    IF ~IsArith(a) \/ ~IsArith(b) THEN Exc("TypeError")
    ELSE IF IsZero(b) THEN Exc("ZeroDivisionError")
    ELSE IF IsNum(a) /\ IsNum(b) THEN Val(RDiv(a, b))
    ELSE IF a.k = "real" /\ IsNum(b) THEN Val(Real(a.s * Sign(b)))
    ELSE IF IsNum(a) /\ b.k = "real"
         THEN Val(IF IsZero(a) THEN Zero ELSE Real(b.s * Sign(a)))
    ELSE IF a.k = "complex" /\ IsNum(b) THEN Val(Complex)
    ELSE IF IsNum(a) /\ ~IsZero(a) /\ b.k = "complex" THEN Val(Complex)
    ELSE Unm

\* a // b
PyFloorDiv(a, b) ==
    IF ~IsArith(a) \/ ~IsArith(b) THEN Exc("TypeError")
    ELSE IF a.k = "complex" \/ b.k = "complex" THEN Exc("TypeError")
    ELSE IF IsZero(b) THEN Exc("ZeroDivisionError")
    ELSE IF IsNum(a) /\ IsNum(b) THEN Val(RFloorDiv(a, b))
    ELSE Unm

\* a ** b for numbers a and b, b not an integer
PyPowFraction(a, b) ==
    IF IsZero(a) THEN (IF b.n > 0 THEN Val(Zero) ELSE Exc("ZeroDivisionError"))
    ELSE IF a = One THEN Val(One)
    ELSE IF a.n < 0 THEN Val(Complex)
    ELSE IF b.d # 2 THEN Unm
    ELSE IF Isqrt(a.n) >= 0 /\ Isqrt(a.d) >= 0
         THEN LET r == Rat(Isqrt(a.n), Isqrt(a.d))
              IN  IF b.n > 0 THEN Val(RPowNat(r, b.n))
                  ELSE Val(RPowNat(RDiv(One, r), -b.n))
         ELSE Val(Real(1))

\* a ** b
PyPow(a, b) ==
    IF ~IsArith(a) \/ ~IsArith(b) THEN Exc("TypeError")
    ELSE IF ~IsNum(a) \/ ~IsNum(b) THEN Unm
    ELSE IF ~IsInteger(b) THEN PyPowFraction(a, b)
    ELSE IF b.n >= 0 THEN Val(RPowNat(a, b.n))
    ELSE IF IsZero(a) THEN Exc("ZeroDivisionError")
    ELSE Val(RPowNat(RDiv(One, a), -b.n))

\* the sign of a finite float: 0 for zero and for a sign the model does not know
SignOf(v) == IF IsNum(v) THEN Sign(v) ELSE v.s

\* infinity plus b
InfiniteAdd(s, b) ==
    IF b.k = "nan" THEN Val(NaN)
    ELSE IF b.k = "inf" THEN Val(IF b.s = s THEN Infinite(s) ELSE NaN)
    ELSE Val(Infinite(s))

\* infinity times b
InfiniteMul(s, b) ==
    IF b.k = "nan" THEN Val(NaN)
    ELSE IF b.k = "inf" THEN Val(Infinite(s * b.s))
    ELSE IF IsNum(b) /\ IsZero(b) THEN Val(NaN)
    ELSE IF SignOf(b) = 0 THEN Unm
    ELSE Val(Infinite(s * SignOf(b)))

\* a op b on floats of which one at least is infinite or NaN
NonFiniteOp(op, a, b) ==
    IF (~NonFinite(a) /\ a.k \notin {"num", "real"}) \/ (~NonFinite(b) /\ b.k \notin {"num", "real"})
    THEN Unm
    ELSE IF op = "+"
         THEN (IF a.k = "nan" THEN Val(NaN)
               ELSE IF a.k = "inf" THEN InfiniteAdd(a.s, b) ELSE InfiniteAdd(b.s, a))
    ELSE IF op = "-"
         THEN (IF a.k = "nan" \/ b.k = "nan" THEN Val(NaN)
               ELSE IF a.k = "inf"
                    THEN (IF b.k = "inf" THEN InfiniteAdd(a.s, Infinite(0 - b.s))
                          ELSE Val(a))
               ELSE Val(Infinite(0 - b.s)))
    ELSE IF op = "*"
         THEN (IF a.k = "nan" THEN Val(NaN)
               ELSE IF a.k = "inf" THEN InfiniteMul(a.s, b) ELSE InfiniteMul(b.s, a))
    ELSE IF op = "/"
         THEN (IF IsNum(b) /\ IsZero(b) THEN Exc("ZeroDivisionError")
               ELSE IF a.k = "nan" \/ b.k = "nan" THEN Val(NaN)
               ELSE IF b.k = "inf" THEN Val(IF a.k = "inf" THEN NaN ELSE Zero)
               ELSE IF SignOf(b) = 0 THEN Unm
               ELSE Val(Infinite(a.s * SignOf(b))))
    ELSE Unm

FiniteBinaryOp(op, a, b) ==
    CASE op = "+" -> PyAdd(a, b)
      [] op = "-" -> PySub(a, b)
      [] op = "*" -> PyMul(a, b)
      [] op = "/" -> PyTrueDiv(a, b)
      [] op = "//" -> PyFloorDiv(a, b)
      [] op = "**" -> PyPow(a, b)

BinaryOp(op, a, b) ==
    IF NonFinite(a) \/ NonFinite(b) THEN NonFiniteOp(op, a, b) ELSE FiniteBinaryOp(op, a, b)

UnaryOp(op, a) ==
    IF a.k = "nan" THEN Val(NaN)
    ELSE IF a.k = "inf" THEN Val(IF op = "-" THEN Infinite(0 - a.s) ELSE a)
    ELSE IF op = "-" THEN PyNeg(a) ELSE PyPos(a)

\* math.sqrt(a)
MathSqrt(a) ==
    IF IsNum(a)
    THEN (IF a.n < 0 THEN Exc("ValueError")
          ELSE IF Isqrt(a.n) >= 0 /\ Isqrt(a.d) >= 0
               THEN Val(Rat(Isqrt(a.n), Isqrt(a.d)))
               ELSE Val(Real(1)))
    ELSE IF a.k = "real"
         THEN (IF a.s = 1 THEN Val(Real(1))
               ELSE IF a.s = -1 THEN Exc("ValueError") ELSE Unm)
    ELSE Exc("TypeError")

\* math.sin, math.cos, math.tan: exact at 0, irrational at every other rational
MathTrig(name, a) ==
    IF IsNum(a)
    THEN (IF IsZero(a) THEN Val(IF name = "cos" THEN One ELSE Zero) ELSE Val(Real(0)))
    ELSE IF a.k = "real" THEN Unm
    ELSE Exc("TypeError")

\* abs(a)
BuiltinAbs(a) ==
    IF IsNum(a) THEN Val([k |-> "num", n |-> Abs(a.n), d |-> a.d])
    ELSE IF a.k = "real" THEN Val(Real(1))
    ELSE IF a.k = "complex" THEN Unm
    ELSE Exc("TypeError")

\* round(a): to the nearest integer, ties to the even one
BuiltinRound(a) ==
    IF IsNum(a)
    THEN LET fl == a.n \div a.d
             twice == 2 * (a.n - fl * a.d)
         IN  Val(Whole(IF twice < a.d THEN fl
                       ELSE IF twice > a.d THEN fl + 1
                       ELSE IF fl % 2 = 0 THEN fl ELSE fl + 1))
    ELSE IF a.k = "real" THEN Unm
    ELSE Exc("TypeError")

\* min(*args) and max(*args); least picks min
RECURSIVE Extreme(_, _)
Extreme(args, least) ==
    IF Len(args) = 1 THEN args[1]
    ELSE LET rest == Extreme(Tail(args), least)
         IN  IF least
             THEN (IF RLess(rest, args[1]) THEN rest ELSE args[1])
             ELSE (IF RLess(args[1], rest) THEN rest ELSE args[1])

BuiltinMinMax(args, least) ==
    IF Len(args) = 0 THEN Exc("TypeError")
    ELSE IF Len(args) = 1
         THEN (IF args[1].k = "tuple" THEN Unm ELSE Exc("TypeError"))
    ELSE IF \A i \in 1..Len(args) : IsNum(args[i]) THEN Val(Extreme(args, least))
    ELSE Unm

\* calling the value f with the argument values args
CallValue(f, args) ==
    IF f.k # "func" THEN Exc("TypeError")
    ELSE IF \E i \in 1..Len(args) : NonFinite(args[i]) THEN Unm
    ELSE IF f.name \in {"min", "max"} THEN BuiltinMinMax(args, f.name = "min")
    ELSE IF f.name = "round"
         THEN (IF Len(args) = 1 THEN BuiltinRound(args[1])
               ELSE IF Len(args) = 2 THEN Unm ELSE Exc("TypeError"))
    ELSE IF Len(args) # 1 THEN Exc("TypeError")
    ELSE IF f.name = "sqrt" THEN MathSqrt(args[1])
    ELSE IF f.name = "abs" THEN BuiltinAbs(args[1])
    ELSE MathTrig(f.name, args[1])

----------------------------------------------------------------------------
(* eval(): the tokens of a Python expression *)

NumTok(v) == [t |-> "num", v |-> v]
NameTok(id) == [t |-> "name", id |-> id]
OpTok(o) == [t |-> "op", o |-> o]

IsOp(tok, ops) == tok.t = "op" /\ tok.o \in ops

\* the Python keywords that the letters of the inputs can spell
\* 10^FloatMaxExponent is past the largest float (sys.float_info.max_10_exp + 1)
FloatMaxExponent == 309

Keywords == {<<"a", "n", "d">>, <<"o", "r">>, <<"n", "o", "t">>, <<"i", "s">>,
             <<"i", "n">>, <<"i", "f">>, <<"a", "s">>, <<"e", "l", "s", "e">>,
             <<"f", "o", "r">>}

\* the first index from i on whose character is not in cs
RECURSIVE RunEnd(_, _, _)
RunEnd(s, i, cs) ==
    IF i <= Len(s) /\ s[i] \in cs THEN RunEnd(s, i + 1, cs) ELSE i

\* the value of a run of decimal digits
RECURSIVE DecimalValue(_, _)
DecimalValue(ds, acc) ==
    IF ds = <<>> THEN Whole(acc)
    ELSE IF acc > MaxMagnitude THEN Unmodelled
    ELSE DecimalValue(Tail(ds), acc * 10 + DigitValue(ds[1]))

\* the number of parentheses open before position i
RECURSIVE DepthBefore(_, _)
DepthBefore(s, i) ==
    IF i <= 1 THEN 0
    ELSE DepthBefore(s, i - 1)
         + (IF s[i - 1] = "(" THEN 1 ELSE IF s[i - 1] = ")" THEN -1 ELSE 0)

\* a letter right after the digits ds: an exponent, an imaginary unit, a
\* base prefix or a keyword is outside the modelled subset, any other letter
\* is an invalid literal
\* the digits ds are followed at j by e and an exponent that ends the literal
\* and takes a nonzero ds past the largest float
OverflowingExponent(s, ds, j) ==
    LET k == RunEnd(s, j + 1, DigitChars)
    IN  /\ s[j] = "e" /\ k > j + 1
        /\ (k > Len(s) \/ s[k] \notin Letters \cup {"."})
        /\ DecimalValue(ds, 0) # Zero
        /\ (DecimalValue(SubSeq(s, j + 1, k - 1), 0) = Unmodelled
            \/ DecimalValue(SubSeq(s, j + 1, k - 1), 0).n >= FloatMaxExponent)

LetterAfterNumber(s, ds, j) ==
    LET word == SubSeq(s, j, RunEnd(s, j, Letters \cup DigitChars) - 1)
    IN  \/ s[j] \in {"e", "E", "j", "J"}
        \/ ds = <<"0">> /\ s[j] \in {"x", "X", "o", "O", "b", "B"}
        \/ \E kw \in Keywords : startswith(word, kw)

\* the tokens of the text s from position i on; bad records a lexical error
\* already met
RECURSIVE Lex(_, _, _, _)
Lex(s, i, acc, bad) ==
    IF i > Len(s) THEN (IF bad THEN [st |-> "syntax"] ELSE [st |-> "ok", toks |-> acc])
    ELSE LET c == s[i]
             peek == IF i < Len(s) THEN s[i + 1] ELSE ""
         IN
         IF c \in Whitespace THEN Lex(s, i + 1, acc, bad)
         ELSE IF IsDigit(c)
              THEN LET j == RunEnd(s, i, DigitChars)
                       ds == SubSeq(s, i, j - 1)
                       v == DecimalValue(ds, 0)
                   IN  IF j <= Len(s) /\ s[j] = "." THEN [st |-> "unmodelled"]
                       ELSE IF j <= Len(s) /\ s[j] \in Letters
                            THEN (IF OverflowingExponent(s, ds, j)
                                  THEN Lex(s, RunEnd(s, j + 1, DigitChars),
                                           Append(acc, NumTok(Infinite(1))), bad)
                                  ELSE IF LetterAfterNumber(s, ds, j)
                                  THEN [st |-> "unmodelled"]
                                  ELSE Lex(s, j, acc, TRUE))
                       ELSE IF v = Unmodelled THEN [st |-> "unmodelled"]
                       ELSE IF Len(ds) > 1 /\ ds[1] = "0" /\ v # Zero
                            THEN Lex(s, j, acc, TRUE)
                       ELSE Lex(s, j, Append(acc, NumTok(v)), bad)
         ELSE IF c \in Letters
              THEN LET j == RunEnd(s, i, Letters \cup DigitChars)
                       id == SubSeq(s, i, j - 1)
                   IN  IF id \in Keywords THEN [st |-> "unmodelled"]
                       ELSE Lex(s, j, Append(acc, NameTok(id)), bad)
         ELSE IF c \in {"*", "/"}
              THEN (IF peek = "="  THEN [st |-> "unmodelled"]
                    ELSE IF peek = c THEN Lex(s, i + 2, Append(acc, OpTok(<<c, c>>)), bad)
                    ELSE Lex(s, i + 1, Append(acc, OpTok(<<c>>)), bad))
         ELSE IF c \in {"+", "-", "(", ")", ","}
              THEN Lex(s, i + 1, Append(acc, OpTok(<<c>>)), bad)
         ELSE IF c = "="
              THEN (IF peek = "=" \/ DepthBefore(s, i) # 0 THEN [st |-> "unmodelled"]
                    ELSE Lex(s, i + 1, acc, TRUE))
         ELSE IF c \in {"$", "×", "÷"} THEN Lex(s, i + 1, acc, TRUE)
         ELSE [st |-> "unmodelled"]

Tokenize(s) == Lex(s, 1, <<>>, FALSE)

----------------------------------------------------------------------------
(* eval(): the syntax tree of a Python expression *)

Plus == <<"+">>
Minus == <<"-">>
Star == <<"*">>
Slash == <<"/">>
DoubleStar == <<"*", "*">>
DoubleSlash == <<"/", "/">>
LeftParen == <<"(">>
RightParen == <<")">>
Comma == <<",">>

OpName(o) ==
    CASE o = Plus -> "+"
      [] o = Minus -> "-"
      [] o = Star -> "*"
      [] o = Slash -> "/"
      [] o = DoubleStar -> "**"
      [] o = DoubleSlash -> "//"

Parsed(ast, pos) == [st |-> "ok", ast |-> ast, pos |-> pos]
SyntaxErr == [st |-> "syntax"]
Outside == [st |-> "unmodelled"]

At(toks, i, ops) == i <= Len(toks) /\ IsOp(toks[i], ops)

RECURSIVE ParseArith(_, _), ArithRest(_, _, _), ParseTerm(_, _), TermRest(_, _, _)
RECURSIVE ParseFactor(_, _), ParsePower(_, _), ParsePrimary(_, _), Trailers(_, _, _)
RECURSIVE ParseAtom(_, _), ParseArgs(_, _, _), ParseItems(_, _, _)
RECURSIVE TermRestFlat(_, _, _), TermRestRight(_, _, _), PowerRestLeft(_, _, _)

\* The operators named ...Step and ...Then take the result of the sub-parse that
\* was just made, so that each rule calls the rule below it in one place.
BinNode(o, l, r) == [node |-> "bin", op |-> OpName(o), l |-> l, r |-> r]

ArithStep(toks, left, o, r) ==
    IF r.st # "ok" THEN r ELSE ArithRest(toks, BinNode(o, left, r.ast), r.pos)

ArithThen(toks, l) == IF l.st # "ok" THEN l ELSE ArithRest(toks, l.ast, l.pos)

\* arith_expr: term (('+'|'-') term)*
ParseArith(toks, i) == ArithThen(toks, ParseTerm(toks, i))

ArithRest(toks, left, i) ==
    IF At(toks, i, {Plus, Minus})
    THEN ArithStep(toks, left, toks[i].o, ParseTerm(toks, i + 1))
    ELSE Parsed(left, i)

TermStep(toks, left, o, r) ==
    IF r.st # "ok" THEN r ELSE TermRest(toks, BinNode(o, left, r.ast), r.pos)

TermThen(toks, l) == IF l.st # "ok" THEN l ELSE TermRest(toks, l.ast, l.pos)

\* term: factor (('*'|'/'|'//') factor)*
ParseTerm(toks, i) == TermThen(toks, ParseFactor(toks, i))

TermStepFlat(toks, left, o, r) ==
    IF r.st # "ok" THEN r ELSE TermRestFlat(toks, BinNode(o, left, r.ast), r.pos)

\* a variant without precedence: + and - taken at the level of * and /
TermRestFlat(toks, left, i) ==
    IF At(toks, i, {Star, Slash, DoubleSlash, Plus, Minus})
    THEN TermStepFlat(toks, left, toks[i].o, ParseFactor(toks, i + 1))
    ELSE Parsed(left, i)

TermStepRight(left, o, r) ==
    IF r.st # "ok" THEN r ELSE Parsed(BinNode(o, left, r.ast), r.pos)

\* a variant grouping to the right: a/b/c read as a/(b/c)
TermRestRight(toks, left, i) ==
    IF At(toks, i, {Star, Slash, DoubleSlash})
    THEN TermStepRight(left, toks[i].o, ParseTerm(toks, i + 1))
    ELSE Parsed(left, i)

TermRest(toks, left, i) ==
    IF At(toks, i, {Star, Slash, DoubleSlash})
    THEN TermStep(toks, left, toks[i].o, ParseFactor(toks, i + 1))
    ELSE Parsed(left, i)

FactorThen(o, a) ==
    IF a.st # "ok" THEN a ELSE Parsed([node |-> "un", op |-> OpName(o), a |-> a.ast], a.pos)

\* factor: ('+'|'-') factor | power
ParseFactor(toks, i) ==
    IF At(toks, i, {Plus, Minus})
    THEN FactorThen(toks[i].o, ParseFactor(toks, i + 1))
    ELSE ParsePower(toks, i)

PowerStepLeft(toks, left, e) ==
    IF e.st # "ok" THEN e ELSE PowerRestLeft(toks, BinNode(DoubleStar, left, e.ast), e.pos)

\* a variant grouping ** to the left: a**b**c read as (a**b)**c
PowerRestLeft(toks, left, i) ==
    IF At(toks, i, {DoubleStar})
    THEN PowerStepLeft(toks, left, ParsePrimary(toks, i + 1))
    ELSE Parsed(left, i)

PowerThenLeft(toks, b) == IF b.st # "ok" THEN b ELSE PowerRestLeft(toks, b.ast, b.pos)

ParsePowerLeft(toks, i) == PowerThenLeft(toks, ParsePrimary(toks, i))

ExponentThen(b, e) ==
    IF e.st # "ok" THEN e ELSE Parsed(BinNode(DoubleStar, b.ast, e.ast), e.pos)

PowerThen(toks, b) ==
    IF b.st # "ok" THEN b
    ELSE IF At(toks, b.pos, {DoubleStar})
         THEN ExponentThen(b, ParseFactor(toks, b.pos + 1))
    ELSE b

\* power: primary ['**' factor]
ParsePower(toks, i) == PowerThen(toks, ParsePrimary(toks, i))

PrimaryThen(toks, a) == IF a.st # "ok" THEN a ELSE Trailers(toks, a.ast, a.pos)

\* primary: atom ('(' [arglist] ')')*
ParsePrimary(toks, i) == PrimaryThen(toks, ParseAtom(toks, i))

TrailerThen(toks, f, args) ==
    IF args.st # "ok" THEN args
    ELSE Trailers(toks, [node |-> "call", f |-> f, args |-> args.ast], args.pos)

Trailers(toks, f, i) ==
    IF At(toks, i, {LeftParen})
    THEN TrailerThen(toks, f, ParseArgs(toks, i + 1, <<>>))
    ELSE Parsed(f, i)

ArgThen(toks, acc, a) ==
    IF a.st # "ok" THEN a
    ELSE IF At(toks, a.pos, {Comma})
         THEN ParseArgs(toks, a.pos + 1, Append(acc, a.ast))
    ELSE IF At(toks, a.pos, {RightParen})
         THEN Parsed(Append(acc, a.ast), a.pos + 1)
    ELSE SyntaxErr

\* arglist: the arguments of a call up to its ')'
ParseArgs(toks, i, acc) ==
    IF At(toks, i, {RightParen}) THEN Parsed(acc, i + 1)
    ELSE IF At(toks, i, {Star, DoubleStar}) THEN Outside
    ELSE ArgThen(toks, acc, ParseArith(toks, i))

ItemThen(toks, acc, a) ==
    IF a.st # "ok" THEN a
    ELSE IF At(toks, a.pos, {Comma})
         THEN (IF a.pos + 1 > Len(toks) \/ At(toks, a.pos + 1, {RightParen})
               THEN Parsed([node |-> "tuple", items |-> Append(acc, a.ast)], a.pos + 1)
               ELSE ParseItems(toks, a.pos + 1, Append(acc, a.ast)))
    ELSE IF acc = <<>> THEN a
    ELSE Parsed([node |-> "tuple", items |-> Append(acc, a.ast)], a.pos)

\* testlist: expr (',' expr)* [','], a tuple when it holds a comma
ParseItems(toks, i, acc) ==
    IF At(toks, i, {Star})
    THEN (IF \E j \in 1..Len(toks) : IsOp(toks[j], {Comma}) THEN Outside ELSE SyntaxErr)
    ELSE ItemThen(toks, acc, ParseArith(toks, i))

GroupThen(toks, e) ==
    IF e.st # "ok" THEN e
    ELSE IF At(toks, e.pos, {RightParen}) THEN Parsed(e.ast, e.pos + 1)
    ELSE SyntaxErr

\* atom: NUMBER | NAME | '(' [testlist] ')'
ParseAtom(toks, i) ==
    IF i > Len(toks) THEN SyntaxErr
    ELSE IF toks[i].t = "num" THEN Parsed([node |-> "num", v |-> toks[i].v], i + 1)
    ELSE IF toks[i].t = "name" THEN Parsed([node |-> "name", id |-> toks[i].id], i + 1)
    ELSE IF IsOp(toks[i], {LeftParen})
         THEN (IF At(toks, i + 1, {RightParen})
               THEN Parsed([node |-> "tuple", items |-> <<>>], i + 2)
               ELSE GroupThen(toks, ParseItems(toks, i + 1, <<>>)))
    ELSE SyntaxErr

\* compile(text, mode='eval'): the tree of the whole text
CompileParsed(toks, e) ==
    IF e.st # "ok" THEN [st |-> e.st]
    ELSE IF e.pos <= Len(toks) THEN SyntaxErr
    ELSE [st |-> "ok", ast |-> e.ast]

CompileTokens(lexed) ==
    IF lexed.st # "ok" THEN [st |-> lexed.st]
    ELSE CompileParsed(lexed.toks, ParseItems(lexed.toks, 1, <<>>))

Compile(text) == CompileTokens(Tokenize(text))

----------------------------------------------------------------------------
(* eval(): the value of a tree in a context of names *)

RECURSIVE Eval(_, _), EvalAll(_, _, _)

\* the values of the trees in order, stopping at the first that raises
EvalAll(asts, ctx, acc) ==
    IF asts = <<>> THEN [t |-> "val", v |-> acc]
    ELSE LET a == Eval(asts[1], ctx)
         IN  IF a.t # "val" THEN a ELSE EvalAll(Tail(asts), ctx, Append(acc, a.v))

Eval(ast, ctx) ==
    CASE ast.node = "num" -> Val(ast.v)
      [] ast.node = "name" ->
            IF ast.id \in DOMAIN ctx THEN Val(ctx[ast.id]) ELSE Exc("NameError")
      [] ast.node = "un" ->
            LET a == Eval(ast.a, ctx)
            IN  IF a.t # "val" THEN a ELSE UnaryOp(ast.op, a.v)
      [] ast.node = "bin" ->
            LET l == Eval(ast.l, ctx)
            IN  IF l.t # "val" THEN l
                ELSE LET r == Eval(ast.r, ctx)
                     IN  IF r.t # "val" THEN r ELSE BinaryOp(ast.op, l.v, r.v)
      [] ast.node = "call" ->
            LET f == Eval(ast.f, ctx)
            IN  IF f.t # "val" THEN f
                ELSE LET args == EvalAll(ast.args, ctx, <<>>)
                     IN  IF args.t # "val" THEN args ELSE CallValue(f.v, args.v)
      [] ast.node = "tuple" ->
            LET items == EvalAll(ast.items, ctx, <<>>)
            IN  IF items.t # "val" THEN items ELSE Val(TupleValue)

\* eval(text, {"__builtins__": {}}, ctx)
EvalCompiled(c, ctx) ==
    IF c.st = "syntax" THEN Exc("SyntaxError")
    ELSE IF c.st = "unmodelled" THEN Unm
    ELSE Eval(c.ast, ctx)

PyEval(text, ctx) == EvalCompiled(Compile(text), ctx)

----------------------------------------------------------------------------
(* Calculator (src/backend/calculator.py) *)

\* Calculator.math_context
CalcContext ==
    [id \in {<<"a", "b", "s">>, <<"r", "o", "u", "n", "d">>, <<"m", "i", "n">>,
             <<"m", "a", "x">>, <<"s", "q", "r", "t">>, <<"p", "i">>, <<"e">>} |->
        CASE id = <<"a", "b", "s">> -> Func("abs")
          [] id = <<"r", "o", "u", "n", "d">> -> Func("round")
          [] id = <<"m", "i", "n">> -> Func("min")
          [] id = <<"m", "a", "x">> -> Func("max")
          [] id = <<"s", "q", "r", "t">> -> Func("sqrt")
          [] id = <<"p", "i">> -> Real(1)
          [] id = <<"e">> -> Real(1)]

\* Calculator._prepare_expression
prepare_expression(text) ==
    LET stripped == strip(text)
        powered == replace(stripped, "^", <<"*", "*">>)
        ascii == replace(replace(powered, "×", <<"*">>), "÷", <<"/">>)
        r1 == SubPair(ascii, DigitChars, {"("})
        r2 == SubPair(r1, {")"}, DigitChars)
        r3 == SubPair(r2, {")"}, {"("})
    IN  r3

\* the character class of allowed_pattern
AllowedChars ==
    DigitChars \cup {"+", "-", "*", "/", "^", "(", ")", ".", ","} \cup Whitespace
    \cup {"p", "i", "e", "P", "I", "s", "q", "r", "t", "a", "b", "o", "u", "n", "d", "m", "x"}

\* re.sub of the allowed class by '': the characters that are not allowed
InvalidChars(text) == SelectSeq(text, LAMBDA c : c \notin AllowedChars)

\* a variant that looks at the counter only at the end of the text
RECURSIVE ParenCheckAtEnd(_, _)
ParenCheckAtEnd(text, paren_count) ==
    IF text = <<>>
    THEN (IF paren_count < 0 THEN "extra" ELSE IF paren_count > 0 THEN "missing" ELSE "balanced")
    ELSE ParenCheckAtEnd(Tail(text),
                         IF text[1] = "(" THEN paren_count + 1
                         ELSE IF text[1] = ")" THEN paren_count - 1
                         ELSE paren_count)

\* the parenthesis counter of _validate_expression: "extra" as soon as it
\* goes negative, otherwise "missing" when it ends nonzero
RECURSIVE ParenCheck(_, _)
ParenCheck(text, paren_count) ==
    IF text = <<>> THEN (IF paren_count # 0 THEN "missing" ELSE "balanced")
    ELSE LET next == IF text[1] = "(" THEN paren_count + 1
                     ELSE IF text[1] = ")" THEN paren_count - 1
                     ELSE paren_count
         IN  IF next < 0 THEN "extra" ELSE ParenCheck(Tail(text), next)

None == [k |-> "none"]
Ok(v) == [status |-> "ok", value |-> v, message |-> "", detail |-> <<>>]
Error(message, detail) ==
    [status |-> "error", value |-> None, message |-> message, detail |-> detail]
NotModelled == [status |-> "unmodelled", value |-> None, message |-> "", detail |-> <<>>]

\* Calculator._validate_expression: Ok or the ValueError it raises
validate_expression(text) ==
    IF InvalidChars(text) # <<>>
    THEN Error("Invalid characters in expression", InvalidChars(text))
    ELSE IF ParenCheck(text, 0) = "extra"
         THEN Error("Unbalanced parentheses: extra closing parenthesis", <<>>)
    ELSE IF ParenCheck(text, 0) = "missing"
         THEN Error("Unbalanced parentheses: missing closing parenthesis", <<>>)
    ELSE Ok(None)

\* the try block of evaluate_expression on the prepared text
\* what the try block makes of the result r of eval
\* a variant that returns whatever eval produced
OutcomeUnchecked(r) ==
    IF r.t = "unmodelled" THEN NotModelled
    ELSE IF r.t = "exc" THEN Error("Could not evaluate expression", <<r.e>>)
    ELSE Ok(r.v)

Outcome(r) ==
    IF r.t = "unmodelled" THEN NotModelled
    ELSE IF r.t = "exc"
         THEN (IF r.e = "ZeroDivisionError" THEN Error("Cannot divide by zero", <<>>)
               ELSE IF r.e = "SyntaxError" THEN Error("Invalid expression syntax", <<>>)
               ELSE Error("Could not evaluate expression", <<r.e>>))
    ELSE IF NonFinite(r.v)
         THEN Error("Could not evaluate expression",
                    <<"Result is undefined (infinity or NaN)">>)
    ELSE IF r.v.k \notin {"num", "real"}
         THEN Error("Could not evaluate expression",
                    <<"Expression did not evaluate to a number">>)
    ELSE Ok(r.v)

EvalPrepared(prepared) == Outcome(PyEval(prepared, CalcContext))

\* the order of lines 179-187: the validation's error, or else the evaluation
ValidThenEval(valid, prepared) ==
    IF valid.status # "ok" THEN valid ELSE EvalPrepared(prepared)

\* a variant that validates the prepared text instead of the original
evaluate_prepared_validated(text) ==
    IF text = <<>> \/ strip(text) = <<>> THEN Error("Empty expression", <<>>)
    ELSE ValidThenEval(validate_expression(prepare_expression(text)),
                       prepare_expression(text))

\* Calculator.evaluate_expression: the value returned or the ValueError raised
evaluate_expression(text) ==
    IF text = <<>> \/ strip(text) = <<>> THEN Error("Empty expression", <<>>)
    ELSE ValidThenEval(validate_expression(text), prepare_expression(text))

\* Calculator.divide: the value returned or the ValueError raised
divide(a, b) ==
    IF IsZero(b) THEN Error("Cannot divide by zero", <<>>)
    ELSE LET q == RDiv(a, b)
         IN  IF q = Unmodelled THEN NotModelled ELSE Ok(q)

----------------------------------------------------------------------------
(* Grapher (src/backend/grapher.py) *)

\* Grapher.math_context with x bound
GraphContext(x) ==
    [id \in {<<"s", "i", "n">>, <<"c", "o", "s">>, <<"t", "a", "n">>,
             <<"s", "q", "r", "t">>, <<"a", "b", "s">>, <<"p", "i">>, <<"e">>, <<"x">>} |->
        CASE id = <<"s", "i", "n">> -> Func("sin")
          [] id = <<"c", "o", "s">> -> Func("cos")
          [] id = <<"t", "a", "n">> -> Func("tan")
          [] id = <<"s", "q", "r", "t">> -> Func("sqrt")
          [] id = <<"a", "b", "s">> -> Func("abs")
          [] id = <<"p", "i">> -> Real(1)
          [] id = <<"e">> -> Real(1)
          [] id = <<"x">> -> x]

FunctionWords == <<<<"s", "i", "n">>, <<"c", "o", "s">>, <<"t", "a", "n">>, <<"s", "q", "r", "t">>>>

\* the header test and cut of parse_function
StripHeader(text) ==
    LET stripped == strip(text)
    IN  IF startswith(lower(stripped), <<"f", "(", "x", ")">>)
        THEN strip(lstripSet(Drop(stripped, 4), {"="}))
        ELSE stripped

\* the rewriting of parse_function after the header cut
RewriteBody(body) ==
    LET powered == replace(body, "^", <<"*", "*">>)
        r1 == SubPair(powered, DigitChars, {"x"})
        r2 == SubWord(r1, DigitChars, FunctionWords)
        r3 == SubPair(r2, {"x"}, {"("})
        r4 == SubPair(r3, {")"}, {"x", "("})
        r5 == SubPair(r4, {")"}, DigitChars)
    IN  r5

\* Grapher.parse_function
parse_function(text) == RewriteBody(StripHeader(text))

NoValue == [t |-> "none"]
Value(v) == [t |-> "value", v |-> v]
Raised(e) == [t |-> "raise", e |-> e]

\* the exception classes Grapher.evaluate catches
Caught == {"ValueError", "ZeroDivisionError", "OverflowError", "SyntaxError", "NameError"}

\* Grapher.evaluate: a value, None, or the exception that escapes
\* what evaluate makes of the result r of eval
NumericOrNone(r) ==
    IF r.t = "unmodelled" THEN [t |-> "unmodelled"]
    ELSE IF r.t = "exc" THEN (IF r.e \in Caught THEN NoValue ELSE Raised(r.e))
    ELSE IF r.v.k \in {"num", "real"} THEN Value(r.v)
    ELSE NoValue

evaluate(expr, x) == NumericOrNone(PyEval(expr, GraphContext(x)))

Series(xs, ys) == [status |-> "ok", x_values |-> xs, y_values |-> ys, exc |-> ""]
Failed(e) == [status |-> "raise", x_values |-> <<>>, y_values |-> <<>>, exc |-> e]
PlotNotModelled == [status |-> "unmodelled", x_values |-> <<>>, y_values |-> <<>>, exc |-> ""]

\* the loop of generate_plot_data from index i on, and the test after it
RECURSIVE SampleLoop(_, _, _, _, _, _, _)

\* x = x_min + i * step
SamplePoint(lo, step, i) ==
    LET scaled == RMul(Whole(i), step)
    IN  IF scaled = Unmodelled THEN Unmodelled ELSE RAdd(lo, scaled)

\* the rest of the loop body, y being self.evaluate(expression, x)
SampleKeep(expr, lo, step, i, n, xs, ys, x, y) ==
    IF x = Unmodelled \/ y.t = "unmodelled" THEN PlotNotModelled
    ELSE IF y.t = "raise" THEN Failed(y.e)
    ELSE IF y.t = "value"
         THEN SampleLoop(expr, lo, step, i + 1, n, Append(xs, x), Append(ys, y.v))
    ELSE SampleLoop(expr, lo, step, i + 1, n, xs, ys)

SampleStep(expr, lo, step, i, n, xs, ys, x) ==
    SampleKeep(expr, lo, step, i, n, xs, ys, x, evaluate(expr, x))

SampleLoop(expr, lo, step, i, n, xs, ys) ==
    IF i >= n
    THEN (IF xs = <<>> THEN Failed("ValueError") ELSE Series(xs, ys))
    ELSE SampleStep(expr, lo, step, i, n, xs, ys, SamplePoint(lo, step, i))

\* Grapher.generate_plot_data: the series returned or the exception raised
generate_plot_data(text, lo, hi, n) ==
    LET expr == parse_function(text)
    IN  IF n = 1 THEN Failed("ZeroDivisionError")
        ELSE LET step == RDiv(RSub(hi, lo), Whole(n - 1))
             IN  SampleLoop(expr, lo, step, 0, n, <<>>, <<>>)

----------------------------------------------------------------------------
(* The texts handed to the calculator and to the grapher *)

\* every text over the alphabet of at most n characters
RECURSIVE Texts(_, _)
Texts(alphabet, n) ==
    IF n = 0 THEN {<<>>}
    ELSE LET shorter == Texts(alphabet, n - 1)
         IN  shorter \cup {Append(t, c) : t \in shorter, c \in alphabet}

\* the decimal numeral of k, 0 <= k < 100
Numeral(k) == IF k < 10 THEN <<Digits[k + 1]>> ELSE <<Digits[(k \div 10) + 1], Digits[(k % 10) + 1]>>

Numerals == {Numeral(k) : k \in 0..MaxNum}

\* a shape is a text with the operand slots "#1", "#2", "#3"
RECURSIVE Fill(_, _)
Fill(shape, operands) ==
    IF shape = <<>> THEN <<>>
    ELSE (CASE shape[1] = "#1" -> operands[1]
            [] shape[1] = "#2" -> operands[2]
            [] shape[1] = "#3" -> operands[3]
            [] OTHER -> <<shape[1]>>) \o Fill(Tail(shape), operands)

Instances(shape) == {Fill(shape, <<a, b, c>>) : a \in Numerals, b \in Numerals, c \in Numerals}

SumProduct == <<"#1", "+", "#2", "*", "#3">>
DiffProduct == <<"#1", "-", "#2", "*", "#3">>
SumQuotient == <<"#1", "+", "#2", "/", "#3">>
GroupedSum == <<"(", "#1", "+", "#2", ")", "*", "#3">>
NestedGroups == <<"(", "(", "#1", "+", "#2", ")", "*", "#1", ")", "^", "#3">>
PowerTower == <<"#1", "^", "#2", "^", "#3">>
QuotientChain == <<"#1", "/", "#2", "/", "#3">>
DiffChain == <<"#1", "-", "#2", "-", "#3">>
NumberGroup == <<"#1", "(", "#2", "+", "#3", ")">>
GroupNumber == <<"(", "#1", "+", "#2", ")", "#3">>
GroupGroup == <<"(", "#1", ")", "(", "#2", "+", "#3", ")">>
NegativePower == <<"#1", "^", "-", "#2">>
GroupedNegativePower == <<"#1", "^", "(", "#2", "-", "#3", ")">>
FloorQuotient == <<"#1", "/", "/", "#2">>
QuotientOfDiff == <<"#1", "/", "(", "#2", "-", "#3", ")">>
GlyphProduct == <<"#1", "+", "#2", "×", "#3">>
GlyphQuotient == <<"#1", "÷", "#2", "÷", "#3">>
GlyphMixed == <<"#1", "×", "#2", "÷", "#3">>

CalcShapes == {SumProduct, DiffProduct, SumQuotient, GroupedSum, NestedGroups, PowerTower,
               QuotientChain, DiffChain, NumberGroup, GroupNumber, GroupGroup,
               NegativePower, GroupedNegativePower, FloorQuotient, QuotientOfDiff,
               GlyphProduct, GlyphQuotient, GlyphMixed}

ArithmeticAlphabet == {"0", "1", "2", "+", "-", "*", "/", "^", "(", ")"}
ParenAlphabet == {"(", ")", "1", "+"}
MixedAlphabet == {"1", "+", "(", " ", "x", "P", "c", "$", "#", "×"}

CalcCandidates ==
    Texts(ArithmeticAlphabet, MaxLen) \cup Texts(ParenAlphabet, MaxParenLen)
    \cup Texts(MixedAlphabet, MaxBadLen) \cup UNION {Instances(sh) : sh \in CalcShapes}

\* the calculator texts whose evaluation the model pins down
CalcInputs == {t \in CalcCandidates : evaluate_expression(t).status # "unmodelled"}

\* the operands of Calculator.divide
Operands == {Whole(k) : k \in (0 - MaxOperand)..MaxOperand}

Headers == {<<>>, <<"f", "(", "x", ")", "=">>, <<"F", "(", "X", ")", "=">>,
            <<"f", "(", "x", ")">>, <<"f", "(", "x", ")", " ", "=">>,
            <<"f", "(", "x", ")", "=", "=">>, <<" ", "F", "(", "x", ")", "=", " ">>,
            <<"f", "x", "=">>}

BodyAlphabet == {"x", "2", "(", ")", "+"}

LinearBody == <<"#1", "x", "+", "#2">>
ScaledGroup == <<"#1", "(", "x", "+", "#2", ")">>
ScaledSin == <<"#1", "s", "i", "n", "(", "x", ")">>
ScaledCos == <<"#1", "c", "o", "s", "(", "x", ")">>
ScaledTan == <<"#1", "t", "a", "n", "(", "x", ")">>
ScaledSqrt == <<"#1", "s", "q", "r", "t", "(", "x", ")">>
ScaledAbs == <<"#1", "a", "b", "s", "(", "x", ")">>
VarGroup == <<"x", "(", "#1", ")">>
GroupVar == <<"(", "x", "+", "#1", ")", "x">>
GroupDigit == <<"(", "x", ")", "#1">>
TwoGroups == <<"(", "x", ")", "(", "x", "-", "#1", ")">>
PowerBody == <<"x", "^", "#1">>
Reciprocal == <<"#1", "/", "(", "x", "-", "#2", ")">>
RootBody == <<"s", "q", "r", "t", "(", "x", "+", "#1", ")">>
SelfPower == <<"(", "x", "-", "#1", ")", "^", "x">>
RootOfPower == <<"s", "q", "r", "t", "(", "(", "0", "-", "#1", ")", "^", "x", ")">>
TanBody == <<"t", "a", "n", "(", "x", ")">>

BodyShapes == {LinearBody, ScaledGroup, ScaledSin, ScaledCos, ScaledTan, ScaledSqrt,
               ScaledAbs, VarGroup, GroupVar, GroupDigit, TwoGroups, PowerBody, Reciprocal,
               RootBody, SelfPower, RootOfPower, TanBody}

FreeBodies == Texts(BodyAlphabet, MaxBodyLen)
ShapedBodies == UNION {Instances(sh) : sh \in BodyShapes}

\* a body headed by each header, for the short bodies and the linear ones
GraphCandidates ==
    FreeBodies \cup ShapedBodies
    \cup {h \o b : h \in Headers, b \in Texts(BodyAlphabet, 2) \cup Instances(LinearBody)}

\* the sampled domains and single points
DomainEnds == {Whole(k) : k \in (0 - 1)..1}
Counts == 0..MaxPoints
Points == {Whole(0 - 1), Zero, Rat(1, 2), Whole(3)}

\* the grapher texts whose sampling the model pins down
GraphInputs ==
    {t \in GraphCandidates :
        /\ \A p \in Points : evaluate(parse_function(t), p).t # "unmodelled"
        /\ \A lo \in DomainEnds, hi \in DomainEnds, n \in Counts :
              generate_plot_data(t, lo, hi, n).status # "unmodelled"}

----------------------------------------------------------------------------
(* The calculator: one call on a fresh Calculator *)

Idle == [call |-> "none"]

\* CalculatorApp.__init__: the calculator panel
FreshApp ==
    [expression |-> <<>>, display_var |-> <<>>, result_var |-> [kind |-> "text", text |-> <<"0">>],
     last_result |-> <<>>, just_evaluated |-> FALSE]

\* CalculatorApp.__init__: the graph panel, its entries and its listbox
FreshPanel ==
    [plotted_functions |-> <<>>, editing_index |-> None, function_var |-> <<"x", "^", "2">>,
     x_min_var |-> Whole(-10), x_max_var |-> Whole(10), selection |-> None,
     listbox |-> <<>>]

GuiIdle ==
    /\ app = FreshApp
    /\ panel = FreshPanel
    /\ event = Idle
    /\ presses = 0

CalcInit ==
    /\ last_result = Zero
    /\ expression \in CalcInputs
    /\ result = Idle

GraphIdle ==
    /\ func_string = <<>>
    /\ x_min = Zero
    /\ x_max = Zero
    /\ num_points = 0
    /\ x_value = Zero
    /\ plot = Idle

Init == CalcInit /\ GraphIdle /\ GuiIdle

\* the end of a call: self.last_result is assigned only when a value is returned
ReturnStoring(call) ==
    /\ result' = call
    /\ last_result' = call.out.value

Return(call) ==
    /\ result' = call
    /\ last_result' = IF call.out.status = "ok" THEN call.out.value ELSE last_result

\* calc.evaluate_expression(expression)
EvaluateExpression ==
    /\ result = Idle
    /\ Return([call |-> "evaluate_expression", out |-> evaluate_expression(expression)])
    /\ UNCHANGED <<expression, graphVars, guiVars>>

\* calc.divide(a, b)
Divide(a, b) ==
    /\ result = Idle
    /\ divide(a, b).status # "unmodelled"
    /\ Return([call |-> "divide", a |-> a, b |-> b, out |-> divide(a, b)])
    /\ expression' = <<>>
    /\ UNCHANGED <<graphVars, guiVars>>

Next ==
    \/ EvaluateExpression
    \/ \E a \in Operands, b \in Operands : Divide(a, b)

Spec == Init /\ [][Next]_vars

----------------------------------------------------------------------------
(* The grapher: one call on a Grapher *)

GraphInit ==
    /\ last_result = Zero
    /\ expression = <<>>
    /\ result = Idle
    /\ func_string \in GraphInputs
    /\ x_min = Zero
    /\ x_max = Zero
    /\ num_points = 0
    /\ x_value = Zero
    /\ plot = Idle
    /\ GuiIdle

\* grapher.parse_function(func_string)
ParseFunction ==
    /\ plot = Idle
    /\ plot' = [call |-> "parse_function", out |-> parse_function(func_string)]
    /\ UNCHANGED <<calcVars, guiVars, func_string, x_min, x_max, num_points, x_value>>

\* expr = grapher.parse_function(func_string); grapher.evaluate(expr, x)
EvaluateAt(x) ==
    /\ plot = Idle
    /\ x_value' = x
    /\ plot' = [call |-> "evaluate", out |-> evaluate(parse_function(func_string), x)]
    /\ UNCHANGED <<calcVars, guiVars, func_string, x_min, x_max, num_points>>

\* grapher.generate_plot_data(func_string, lo, hi, n)
GeneratePlotData(lo, hi, n) ==
    /\ plot = Idle
    /\ x_min' = lo
    /\ x_max' = hi
    /\ num_points' = n
    /\ plot' = [call |-> "generate_plot_data", out |-> generate_plot_data(func_string, lo, hi, n)]
    /\ UNCHANGED <<calcVars, guiVars, func_string, x_value>>

GraphNext ==
    \/ ParseFunction
    \/ \E x \in Points : EvaluateAt(x)
    \/ \E lo \in DomainEnds, hi \in DomainEnds, n \in Counts : GeneratePlotData(lo, hi, n)

SpecGraph == GraphInit /\ [][GraphNext]_vars

----------------------------------------------------------------------------
(* One text handed to both engines: calc.evaluate_expression(text) and
   grapher.evaluate(grapher.parse_function(text), x) *)

EngineAlphabet == {"2", "x", "+", "-", "*", "/", "(", ")"}

\* texts whose value is complex, infinite, NaN, a function or a tuple, and
\* texts around them
EngineTexts ==
    {<<"(", "0", "-", "2", ")", "^", "(", "1", "/", "2", ")">>,
     <<"(", "0", "-", "2", ")", "^", "2">>,
     <<"1", "e", "9", "9", "9">>, <<"1", "e", "3", "0", "9">>,
     <<"-", "1", "e", "9", "9", "9">>,
     <<"1", "e", "9", "9", "9", "-", "1", "e", "9", "9", "9">>,
     <<"1", "e", "9", "9", "9", "+", "1", "e", "9", "9", "9">>,
     <<"1", "e", "9", "9", "9", "*", "0">>, <<"2", "*", "1", "e", "9", "9", "9">>,
     <<"2", "/", "1", "e", "9", "9", "9">>, <<"1", "e", "9", "9", "9", "/", "0">>,
     <<"1", "e", "9", "9", "9", "/", "1", "e", "9", "9", "9">>,
     <<"s", "q", "r", "t">>, <<"a", "b", "s">>, <<"2", ",", "2">>,
     <<"s", "q", "r", "t", "(", "2", ",", "2", ")">>, <<"s", "q", "r", "t", "(", ")">>,
     <<"a", "b", "s", "(", "0", "-", "2", ")">>, <<"2", " ", "2">>,
     <<"2", "^", "-", "1">>, <<"2", "^", "+", "1">>}

EngineCandidates == Texts(EngineAlphabet, MaxLen) \cup EngineTexts

\* the texts whose evaluation by both engines the model pins down
EngineInputs ==
    {t \in EngineCandidates :
        /\ evaluate_expression(t).status # "unmodelled"
        /\ \A p \in Points : evaluate(parse_function(t), p).t # "unmodelled"}

EngineInit ==
    /\ last_result = Zero
    /\ \E t \in EngineInputs : expression = t /\ func_string = t
    /\ result = Idle
    /\ x_min = Zero /\ x_max = Zero /\ num_points = 0 /\ x_value = Zero
    /\ plot = Idle
    /\ GuiIdle

EngineNext ==
    \/ EvaluateExpression
    \/ \E x \in Points : EvaluateAt(x)

SpecEngine == EngineInit /\ [][EngineNext]_vars

----------------------------------------------------------------------------
(* Properties of Calculator.evaluate_expression *)

Evaluated == result.call = "evaluate_expression"

\* the instances of a shape, each with the operands that fill it
Cases(shape) ==
    {[text |-> Fill(shape, <<Numeral(a), Numeral(b), Numeral(c)>>),
      a |-> Whole(a), b |-> Whole(b), c |-> Whole(c)] :
        a \in 0..MaxNum, b \in 0..MaxNum, c \in 0..MaxNum}

SumProductCases == Cases(SumProduct)
DiffProductCases == Cases(DiffProduct)
SumQuotientCases == Cases(SumQuotient)
GroupedSumCases == Cases(GroupedSum)
NestedGroupsCases == Cases(NestedGroups)
PowerTowerCases == Cases(PowerTower)
QuotientChainCases == Cases(QuotientChain)
DiffChainCases == Cases(DiffChain)

\* the outcome a value has, when the model holds the value
Returns(v) == v # Unmodelled => result.out = Ok(v)

\* C1: * and / are applied before + and -, and a parenthesised
\* sub-expression before the operator around it: a+b*c is a+(b*c), a-b*c is
\* a-(b*c), a+b/c is a+(b/c), (a+b)*c is (a+b)*c, ((a+b)*a)^c is ((a+b)*a)^c
C1_Precedence ==
    Evaluated =>
        /\ \A k \in SumProductCases :
              expression = k.text => Returns(RAdd(k.a, RMul(k.b, k.c)))
        /\ \A k \in DiffProductCases :
              expression = k.text => Returns(RSub(k.a, RMul(k.b, k.c)))
        /\ \A k \in SumQuotientCases :
              expression = k.text /\ ~IsZero(k.c) => Returns(RAdd(k.a, RDiv(k.b, k.c)))
        /\ \A k \in GroupedSumCases :
              expression = k.text => Returns(RMul(RAdd(k.a, k.b), k.c))
        /\ \A k \in NestedGroupsCases :
              expression = k.text => Returns(RPowNat(RMul(RAdd(k.a, k.b), k.a), k.c.n))

\* "2+3*4" has been evaluated to 14
C1_Witness ==
    /\ Evaluated
    /\ expression = <<"2", "+", "3", "*", "4">>
    /\ result.out = Ok(Whole(14))

\* C2: ^ is right-associative: a^b^c is a^(b^c)
C2_PowerRightAssociative ==
    Evaluated =>
        \A k \in PowerTowerCases :
            expression = k.text =>
                LET inner == RPowNat(k.b, k.c.n)
                IN  inner # Unmodelled => Returns(RPowNat(k.a, inner.n))

\* "2^2^3" has been evaluated to 256, which (2^2)^3 = 64 is not
C2_Witness ==
    /\ Evaluated
    /\ expression = <<"2", "^", "2", "^", "3">>
    /\ result.out = Ok(Whole(256))

\* C3: / and - are left-associative: a/b/c is (a/b)/c for nonzero b and c,
\* and a-b-c is (a-b)-c
C3_LeftAssociative ==
    Evaluated =>
        /\ \A k \in QuotientChainCases :
              expression = k.text /\ ~IsZero(k.b) /\ ~IsZero(k.c)
                  => Returns(RDiv(RDiv(k.a, k.b), k.c))
        /\ \A k \in DiffChainCases :
              expression = k.text => Returns(RSub(RSub(k.a, k.b), k.c))

\* "4/2/2" has been evaluated to 1, which 4/(2/2) = 4 is not
C3_Witness ==
    /\ Evaluated
    /\ expression = <<"4", "/", "2", "/", "2">>
    /\ result.out = Ok(One)

\* the text with the glyphs × and ÷ written as * and /
Unglyph(text) == replace(replace(text, "×", <<"*">>), "÷", <<"/">>)

HasGlyph(text) == \E i \in 1..Len(text) : text[i] \in {"×", "÷"}

\* C5: a text written with × and ÷ is accepted and evaluates to what the
\* same text written with * and / evaluates to
C5_GlyphsEvaluateLikeAscii ==
    (Evaluated /\ HasGlyph(expression)
       /\ evaluate_expression(Unglyph(expression)).status = "ok")
        => result.out = evaluate_expression(Unglyph(expression))

\* the operator of the node whose evaluation raises first, "none" when the
\* tree evaluates to a value
RECURSIVE RaisingNode(_, _), RaisingAmong(_, _)

RaisingAmong(asts, ctx) ==
    IF asts = <<>> THEN "none"
    ELSE LET first == RaisingNode(asts[1], ctx)
         IN  IF first # "none" THEN first ELSE RaisingAmong(Tail(asts), ctx)

RaisingNode(ast, ctx) ==
    LET below ==
            CASE ast.node = "un" -> RaisingAmong(<<ast.a>>, ctx)
              [] ast.node = "bin" -> RaisingAmong(<<ast.l, ast.r>>, ctx)
              [] ast.node = "call" -> RaisingAmong(<<ast.f>> \o ast.args, ctx)
              [] ast.node = "tuple" -> RaisingAmong(ast.items, ctx)
              [] OTHER -> "none"
    IN  IF below # "none" THEN below
        ELSE IF Eval(ast, ctx).t # "exc" THEN "none"
        ELSE IF ast.node \in {"un", "bin"} THEN ast.op
        ELSE ast.node

\* the evaluation of the text reaches a / (or a //) whose right operand is 0
DividesByZero(text) ==
    /\ strip(text) # <<>>
    /\ validate_expression(text).status = "ok"
    /\ LET c == Compile(prepare_expression(text))
       IN  /\ c.st = "ok"
           /\ Eval(c.ast, CalcContext) = Exc("ZeroDivisionError")
           /\ RaisingNode(c.ast, CalcContext) \in {"/", "//"}

\* C6: a / whose right operand is 0 fails with "Cannot divide by zero", so
\* does divide(a, 0), and no other failure is reported as division by zero
C6_DivisionByZeroOnlyForZeroDivisor ==
    /\ (result.call = "divide" /\ IsZero(result.b))
          => result.out = Error("Cannot divide by zero", <<>>)
    /\ Evaluated
          => (result.out.message = "Cannot divide by zero" <=> DividesByZero(expression))

\* the number of '(' less the number of ')' among the first k characters
Balance(text, k) ==
    Cardinality({i \in 1..k : text[i] = "("}) - Cardinality({i \in 1..k : text[i] = ")"})

ExtraClosing == "Unbalanced parentheses: extra closing parenthesis"
MissingClosing == "Unbalanced parentheses: missing closing parenthesis"

\* C7: for a text of allowed characters, a prefix with more ')' than '('
\* fails with "extra closing", otherwise unequal totals fail with "missing
\* closing", and only a text with neither passes the parenthesis check
C7_ParenthesisCounter ==
    (Evaluated /\ \A i \in 1..Len(expression) : expression[i] \in AllowedChars) =>
        LET dips == \E k \in 1..Len(expression) : Balance(expression, k) < 0
            open == Balance(expression, Len(expression)) # 0
        IN  /\ dips => result.out = Error(ExtraClosing, <<>>)
            /\ (~dips /\ open) => result.out = Error(MissingClosing, <<>>)
            /\ (~dips /\ ~open) => result.out.message \notin {ExtraClosing, MissingClosing}

\* "1)(" has equal totals and is rejected for its extra closing parenthesis
C7_Witness ==
    /\ Evaluated
    /\ expression = <<"1", ")", "(">>
    /\ result.out = Error(ExtraClosing, <<>>)

CommonAllowed == DigitChars \cup Whitespace \cup {".", "+", "-", "*", "/", "^", "(", ")", ","}

\* the letters of pi e sqrt abs round min max sin cos tan x
IdentifierLetters ==
    {"p", "i", "e", "s", "q", "r", "t", "a", "b", "o", "u", "n", "d", "m", "x", "c"}

\* the letters of the calculator's character class
CalculatorLetters ==
    {"p", "i", "e", "P", "I", "s", "q", "r", "t", "a", "b", "o", "u", "n", "d", "m", "x"}

Offending(text, allowed) == SelectSeq(text, LAMBDA ch : ch \notin allowed)

InvalidCharacters == "Invalid characters in expression"

\* C8 as stated: a text with a character outside digits, '.', whitespace,
\* + - * / ^ ( ) , and the letters of the recognized identifiers is rejected
\* with the invalid-character error naming exactly those characters in order
C8_OutsideIdentifierLettersRejected ==
    LET bad == Offending(expression, CommonAllowed \cup IdentifierLetters)
    IN  (Evaluated /\ bad # <<>>) => result.out = Error(InvalidCharacters, bad)

\* C8 as amended: a text with a character outside digits, '.', whitespace,
\* + - * / ^ ( ) , and the letters p i e P I s q r t a b o u n d m x is
\* rejected with the invalid-character error naming exactly those characters
\* of the original text in order
C8_OutsideCalculatorClassRejected ==
    LET bad == Offending(expression, CommonAllowed \cup CalculatorLetters)
    IN  (Evaluated /\ bad # <<>>) => result.out = Error(InvalidCharacters, bad)

\* "$1#" has been rejected naming $ and #
C8_Witness ==
    /\ Evaluated
    /\ expression = <<"$", "1", "#">>
    /\ result.out = Error(InvalidCharacters, <<"$", "#">>)

----------------------------------------------------------------------------
(* Properties of Grapher *)

GrapherFunctionNames ==
    <<<<"s", "i", "n">>, <<"c", "o", "s">>, <<"t", "a", "n">>, <<"s", "q", "r", "t">>,
      <<"a", "b", "s">>>>

\* a listed implicit-multiplication boundary lies between s[1] and s[2]
ListedBoundary(s) ==
    \/ IsDigit(s[1]) /\ s[2] = "("
    \/ s[1] = ")" /\ (IsDigit(s[2]) \/ s[2] \in {"(", "x"})
    \/ IsDigit(s[1]) /\ s[2] = "x"
    \/ IsDigit(s[1]) /\ FirstWord(Tail(s), GrapherFunctionNames) # <<>>
    \/ s[1] = "x" /\ s[2] = "("

\* the text with a * at every listed boundary and nowhere else
RECURSIVE StarsAtBoundaries(_)
StarsAtBoundaries(s) ==
    IF Len(s) < 2 THEN s
    ELSE <<s[1]>> \o (IF ListedBoundary(s) THEN <<"*">> ELSE <<>>) \o StarsAtBoundaries(Tail(s))

\* C4: parse_function writes a * at every listed implicit-multiplication
\* boundary of the text (after the header cut and the ^ replacement) and
\* nowhere else
C4_StarAtEveryListedBoundary ==
    plot.call = "parse_function" =>
        plot.out = StarsAtBoundaries(replace(StripHeader(func_string), "^", <<"*", "*">>))

HeaderWithEquals == <<"f", "(", "x", ")", "=">>

\* C9: the header is cut only when the text starts with f(x) followed by =,
\* in either case: "f(x)=" + E and "F(X)=" + E parse as E does, and a text
\* without that start loses no leading characters
C9_HeaderCutOnlyBeforeEquals ==
    plot.call = "parse_function" =>
        LET headed == startswith(lower(strip(func_string)), HeaderWithEquals)
            body == Drop(func_string, Len(HeaderWithEquals))
        IN  /\ (startswith(lower(func_string), HeaderWithEquals)
                  /\ ~startswith(body, <<"=">>))
                  => plot.out = parse_function(body)
            /\ ~headed => plot.out = RewriteBody(strip(func_string))

\* C10: over a domain x_min < x_max, a sample point whose evaluation fails
\* is dropped and nothing else happens: when some point evaluates, the call
\* returns the series of exactly the points that evaluate
C10_PointFailureDropsOnlyThePoint ==
    (plot.call = "generate_plot_data" /\ num_points >= 2 /\ RLess(x_min, x_max)) =>
        LET expr == parse_function(func_string)
            step == RDiv(RSub(x_max, x_min), Whole(num_points - 1))
            X(i) == RAdd(x_min, RMul(Whole(i), step))
            good == {i \in 0..(num_points - 1) : evaluate(expr, X(i)).t = "value"}
        IN  good # {} =>
                /\ plot.out.status = "ok"
                /\ Len(plot.out.x_values) = Cardinality(good)
                /\ \A i \in good :
                      \E k \in 1..Len(plot.out.x_values) :
                          /\ plot.out.x_values[k] = X(i)
                          /\ plot.out.y_values[k] = evaluate(expr, X(i)).v

Returned == plot.call = "generate_plot_data" /\ plot.out.status = "ok"

\* step = (x_max - x_min) / (num_points - 1), and the i-th sample point
StepOf(lo, hi, n) == RDiv(RSub(hi, lo), Whole(n - 1))
PointOf(lo, hi, n, i) == RAdd(lo, RMul(Whole(i), StepOf(lo, hi, n)))

\* the lists have one length, between 1 and num_points
SeriesSized ==
    /\ Len(plot.out.x_values) = Len(plot.out.y_values)
    /\ Len(plot.out.x_values) \in 1..num_points

\* the k-th x is the sample point of an index idx[k], idx strictly increasing
SeriesIndexed ==
    \E idx \in [1..Len(plot.out.x_values) -> 0..(num_points - 1)] :
        /\ \A k \in 1..(Len(plot.out.x_values) - 1) : idx[k] < idx[k + 1]
        /\ \A k \in 1..Len(plot.out.x_values) :
              plot.out.x_values[k] = PointOf(x_min, x_max, num_points, idx[k])

\* the x values ascend along the list
SeriesAscending ==
    \A k \in 1..(Len(plot.out.x_values) - 1) :
        RLess(plot.out.x_values[k], plot.out.x_values[k + 1])

\* every stored y is a number (the model has no NaN and no infinity: a
\* value is an exact rational or a finite irrational)
SeriesFinite ==
    \A k \in 1..Len(plot.out.y_values) : plot.out.y_values[k].k \in {"num", "real"}

\* C11: every series returned by generate_plot_data has x and y lists of one
\* length between 1 and num_points, its k-th x is x_min + i*step for indices
\* i that increase strictly along the list, its x values ascend, and every
\* stored y is a finite number
C11_ReturnedSeriesWellFormed ==
    Returned => (SeriesSized /\ SeriesIndexed /\ SeriesAscending /\ SeriesFinite)

\* C11, the part that does not depend on the order of the domain's ends
C11_ReturnedSeriesIndexed ==
    Returned => (SeriesSized /\ SeriesIndexed /\ SeriesFinite)

\* C12: a call with x_min >= x_max or num_points < 2 is rejected with
\* ValueError: it returns no series and raises no other kind of error
C12_InvalidRangeRejected ==
    (plot.call = "generate_plot_data" /\ (~RLess(x_min, x_max) \/ num_points < 2)) =>
        plot.out = Failed("ValueError")

\* the indices of the sample points at which the function has a value
Evaluating ==
    {i \in 0..(num_points - 1) :
        evaluate(parse_function(func_string), PointOf(x_min, x_max, num_points, i)).t = "value"}

\* C13: over a valid range (x_min < x_max, num_points >= 2) the call fails
\* with the empty-series ValueError exactly when no sample point evaluates,
\* and a series it returns is not empty
C13_EmptySeriesErrorExactlyWhenNoPoint ==
    (plot.call = "generate_plot_data" /\ num_points >= 2 /\ RLess(x_min, x_max)) =>
        /\ (plot.out = Failed("ValueError")) <=> (Evaluating = {})
        /\ plot.out.status = "ok" => plot.out.x_values # <<>>

----------------------------------------------------------------------------
(* Calculator.calculate and the arithmetic methods it dispatches to *)

\* Calculator.add, subtract, multiply, divide, by the operator that selects them
Operations == {"+", "-", "*", "/"}

\* Calculator.calculate: the value returned or the ValueError raised
calculate(a, operator, b) ==
    IF operator \notin Operations THEN Error("Invalid operator", <<operator>>)
    ELSE IF operator = "/" THEN divide(a, b)
    ELSE LET value == CASE operator = "+" -> RAdd(a, b)
                        [] operator = "-" -> RSub(a, b)
                        [] operator = "*" -> RMul(a, b)
         IN  IF value = Unmodelled THEN NotModelled ELSE Ok(value)

----------------------------------------------------------------------------
(* CalculatorApp: the calculator panel (src/frontend/gui.py) *)

\* str(k) for an integer k
RECURSIVE NatText(_)
NatText(k) ==
    IF k < 10 THEN <<Digits[k + 1]>> ELSE Append(NatText(k \div 10), Digits[(k % 10) + 1])

IntText(k) == IF k < 0 THEN <<"-">> \o NatText(0 - k) ELSE NatText(k)

\* the digits of rem/d after the point, up to `room` significant ones, and
\* the remainder left behind the last of them
RECURSIVE FractionDigits(_, _, _, _)
FractionDigits(rem, d, room, significant) ==
    IF rem = 0 \/ room = 0 THEN [ds |-> <<>>, rem |-> rem]
    ELSE LET digit == (rem * 10) \div d
             sig == significant \/ digit # 0
             rest == FractionDigits((rem * 10) % d, d, IF sig THEN room - 1 ELSE room, sig)
         IN  [ds |-> <<digit>> \o rest.ds, rem |-> rest.rem]

\* a digit sequence plus one in its last place
RECURSIVE IncDigits(_)
IncDigits(ds) ==
    IF ds = <<>> THEN <<1>>
    ELSE IF ds[Len(ds)] < 9 THEN [ds EXCEPT ![Len(ds)] = @ + 1]
    ELSE Append(IncDigits(SubSeq(ds, 1, Len(ds) - 1)), 0)

RECURSIVE DropTrailingZeros(_)
DropTrailingZeros(ds) ==
    IF ds # <<>> /\ ds[Len(ds)] = 0 THEN DropTrailingZeros(SubSeq(ds, 1, Len(ds) - 1)) ELSE ds

DigitText(ds) == [i \in 1..Len(ds) |-> Digits[ds[i] + 1]]

\* the digits before the point as numbers
IntDigits(k) == [i \in 1..Len(NatText(k)) |-> DigitValue(NatText(k)[i])]

\* whole and fraction digits put together, the fraction without trailing zeros
PointText(ds, whole) ==
    LET fraction == DropTrailingZeros(SubSeq(ds, whole + 1, Len(ds)))
    IN  DigitText(SubSeq(ds, 1, whole)) \o (IF fraction = <<>> THEN <<>> ELSE <<".">> \o DigitText(fraction))

\* the digits rounded to nearest, ties to even, by the remainder behind them
RoundedText(whole, cut, d) ==
    LET ds == whole \o cut.ds
        up == 2 * cut.rem > d \/ (2 * cut.rem = d /\ ds[Len(ds)] % 2 = 1)
        rounded == IF up THEN IncDigits(ds) ELSE ds
    IN  PointText(rounded, Len(whole) + (Len(rounded) - Len(ds)))

\* f"{n/d:.10g}" for a positive n/d that is not an integer and is at least 1/10000
FormatG10(n, d) ==
    LET whole == IntDigits(n \div d)
    IN  RoundedText(whole,
                    FractionDigits(n % d, d, IF n >= d THEN 10 - Len(whole) ELSE 10, n >= d),
                    d)

\* the results whose text the model pins down: exact ones that "g" prints
\* without an exponent
Formattable(v) == v.k = "num" /\ (v.d = 1 \/ Abs(v.n) * 10000 >= v.d)

\* result_str of _evaluate: str(int(result)) or f"{result:.10g}"
FormatResult(v) ==
    IF v.d = 1 THEN IntText(v.n)
    ELSE (IF v.n < 0 THEN <<"-">> ELSE <<>>) \o FormatG10(Abs(v.n), v.d)

\* the buttons of the panel that are modelled: "0" and "2" stand for the ten
\* digits, "DEL" is the erase key (U+232B)
Buttons ==
    {"0", "2", ".", "+", "-", "*", "/", "^", "(", ")", "sqrt", "pi", "e", "=", "C", "DEL", "±"}

\* the buttons after which _on_button_click keeps a just-evaluated expression
KeepButtons == {"+", "-", "*", "/", "^", "=", "C", "DEL"}

\* the text a button appends
ButtonText(button) ==
    CASE button = "sqrt" -> <<"s", "q", "r", "t", "(">>
      [] button = "pi" -> <<"p", "i">>
      [] OTHER -> <<button>>

\* CalculatorApp._append_to_expression
append_to_expression(a, text) ==
    [a EXCEPT !.expression = a.display_var \o text,
              !.display_var = a.display_var \o text,
              !.just_evaluated = FALSE]

\* CalculatorApp._evaluate, `call` being the calculator's call on a display
\* that is not blank
app_evaluate(a, call) ==
    IF strip(a.display_var) = <<>> THEN a
    ELSE IF call.out.status = "ok"
         THEN [a EXCEPT !.result_var = [kind |-> "value",
                                           text |-> <<"=", " ">> \o FormatResult(call.out.value)],
                        !.last_result = FormatResult(call.out.value),
                        !.just_evaluated = TRUE]
    ELSE [a EXCEPT !.result_var = [kind |-> "error", text |-> <<call.out.message, call.out.detail>>]]

\* CalculatorApp._clear_all
clear_all(a) ==
    [a EXCEPT !.expression = <<>>, !.display_var = <<>>,
              !.result_var = [kind |-> "text", text |-> <<"0">>],
              !.just_evaluated = FALSE]

\* CalculatorApp._backspace
backspace(a) ==
    [a EXCEPT !.display_var = IF @ = <<>> THEN @ ELSE SubSeq(@, 1, Len(@) - 1),
              !.just_evaluated = FALSE]

\* CalculatorApp._toggle_sign
toggle_sign(a) ==
    LET current == a.display_var
    IN  IF current = <<>> THEN a
        ELSE IF startswith(current, <<"-", "(">>) /\ current[Len(current)] = ")"
             THEN [a EXCEPT !.display_var = SubSeq(current, 3, Len(current) - 1)]
        ELSE IF current[1] = "-" THEN [a EXCEPT !.display_var = Tail(current)]
        ELSE [a EXCEPT !.display_var = <<"-", "(">> \o current \o <<")">>]

\* lines 260-265 of _on_button_click
ButtonPrelude(a, button) ==
    IF a.just_evaluated /\ button \notin KeepButtons
    THEN [a EXCEPT !.expression = <<>>, !.just_evaluated = FALSE]
    ELSE [a EXCEPT !.expression = a.display_var]

\* lines 267-287 of _on_button_click
ButtonDispatch(a, button, call) ==
    IF button \in DigitChars \/ button = "." THEN append_to_expression(a, <<button>>)
    ELSE IF button \in {"+", "-", "*", "/", "^"}
         THEN [append_to_expression(a, <<button>>) EXCEPT !.just_evaluated = FALSE]
    ELSE IF button \in {"(", ")"} THEN append_to_expression(a, <<button>>)
    ELSE IF button \in {"sqrt", "pi", "e"} THEN append_to_expression(a, ButtonText(button))
    ELSE IF button = "=" THEN app_evaluate(a, call)
    ELSE IF button = "C" THEN clear_all(a)
    ELSE IF button = "DEL" THEN backspace(a)
    ELSE IF button = "±" THEN toggle_sign(a)
    ELSE a

\* CalculatorApp._on_button_click
on_button_click(a, button, call) == ButtonDispatch(ButtonPrelude(a, button), button, call)

----------------------------------------------------------------------------
(* The calculator panel in use: clicks, typing, and calls on its Calculator *)

\* the call _evaluate makes on the stripped display text
DisplayCall(text) == [call |-> "evaluate_expression", out |-> evaluate_expression(text)]

\* _on_button_click reaches calculator.evaluate_expression
Calls(a, button) == button = "=" /\ strip(a.display_var) # <<>>

Clicked(button) == [call |-> "_on_button_click", button |-> button]

\* a click that evaluates the display
ClickThen(button, call) ==
    /\ call.out.status # "unmodelled"
    /\ call.out.status = "ok" => Formattable(call.out.value)
    /\ Return(call)
    /\ app' = on_button_click(app, button, call)

\* one click on a button of the panel
Click(button) ==
    /\ presses < MaxPresses
    /\ IF Calls(app, button)
       THEN /\ ClickThen(button, DisplayCall(strip(app.display_var)))
            /\ expression' = strip(app.display_var)
       ELSE /\ app' = on_button_click(app, button, Idle)
            /\ result' = Idle
            /\ UNCHANGED <<last_result, expression>>
    /\ event' = Clicked(button)
    /\ presses' = presses + 1
    /\ UNCHANGED <<graphVars, panel>>

\* the user replaces the text of the editable display
TypeDisplay(text) ==
    /\ presses < MaxPresses
    /\ app' = [app EXCEPT !.display_var = text]
    /\ event' = [call |-> "type", button |-> ""]
    /\ result' = Idle
    /\ presses' = presses + 1
    /\ UNCHANGED <<last_result, expression, graphVars, panel>>

\* a call on the panel's Calculator from outside the panel
Backend(call) ==
    /\ presses < MaxPresses
    /\ call.out.status # "unmodelled"
    /\ Return(call)
    /\ event' = [call |-> call.call, button |-> ""]
    /\ presses' = presses + 1
    /\ expression' = <<>>
    /\ UNCHANGED <<graphVars, app, panel>>

CallDivide(a, b) == Backend([call |-> "divide", a |-> a, b |-> b, out |-> divide(a, b)])

CallCalculate(a, operator, b) ==
    Backend([call |-> "calculate", a |-> a, b |-> b, operator |-> operator,
             out |-> calculate(a, operator, b)])

\* the texts typed into the display
Typed == {<<"2">>, <<"2", "/", "3">>, <<"2", "/", "0">>, <<"2", "+">>, <<" ">>}

\* the operators handed to calculate: the four it knows and one it does not
Operators == Operations \cup {"%"}

PanelOperands == {Zero, Whole(2), Rat(1, 2)}

\* the panel with a text in its display
PanelInit ==
    /\ last_result = Zero /\ expression = <<>> /\ result = Idle
    /\ GraphIdle
    /\ \E text \in Typed : app = [FreshApp EXCEPT !.display_var = text]
    /\ panel = FreshPanel /\ event = Idle /\ presses = 0

\* typing, evaluating, and calls on the Calculator
SessionNext ==
    \/ \E text \in Typed : TypeDisplay(text)
    \/ Click("=")
    \/ \E a \in PanelOperands, b \in PanelOperands : CallDivide(a, b)
    \/ \E a \in PanelOperands, b \in PanelOperands, operator \in Operators :
          CallCalculate(a, operator, b)

SpecSession == PanelInit /\ [][SessionNext]_vars

\* clicks on the buttons of the panel
PanelNext == \E button \in Buttons : Click(button)

SpecPanel == PanelInit /\ [][PanelNext]_vars

----------------------------------------------------------------------------
(* Properties of the calculator panel *)

\* the step made a call on the Calculator and the call raised
CallFailed == result'.call # "none" /\ result'.out.status = "error"

\* the step made a call on the Calculator and the call returned
CallReturned == result'.call # "none" /\ result'.out.status = "ok"

\* the step is a click on "=" that ends with the error in the result label
EvaluateFailed == event' = Clicked("=") /\ CallFailed

\* C14: a call of evaluate_expression, calculate or divide that raises leaves
\* last_result as it was; when the call is the panel's, the display text,
\* the panel's own last result and its just_evaluated flag stay as they were
\* and the result label shows the error; a call that returns leaves the
\* value it returned in last_result
C14_FailureChangesNothing ==
    [][/\ CallFailed => last_result' = last_result
       /\ CallReturned => last_result' = result'.out.value
       /\ EvaluateFailed =>
            /\ app'.display_var = app.display_var
            /\ app'.last_result = app.last_result
            /\ app'.just_evaluated = app.just_evaluated
            /\ app'.result_var.kind = "error"]_vars

\* a click on "=" that fails after one that succeeded
C14_Witness ==
    /\ event = Clicked("=") /\ result.call = "evaluate_expression"
    /\ result.out.status = "error" /\ app.result_var.kind = "error"
    /\ last_result # Zero /\ app.just_evaluated /\ app.last_result # <<>>

\* the buttons that start a fresh expression after a result, and the operators
FreshButtons == {"0", "2", ".", "(", ")", "sqrt", "pi", "e"}
OperatorButtons == {"+", "-", "*", "/", "^"}

\* C18: when just_evaluated is true, a click on a digit, ".", a parenthesis,
\* sqrt, pi or e leaves only that button's text in the display; a click on
\* + - * / ^ leaves the old text followed by the operator; just_evaluated is
\* false after either
C18_FreshExpressionAfterResult ==
    [][(app.just_evaluated /\ event'.call = "_on_button_click") =>
          /\ event'.button \in FreshButtons =>
                app'.display_var = ButtonText(event'.button) /\ ~app'.just_evaluated
          /\ event'.button \in OperatorButtons =>
                app'.display_var = app.display_var \o <<event'.button>> /\ ~app'.just_evaluated]_vars

----------------------------------------------------------------------------
(* Properties of both engines on one text *)

\* what eval produced: for the calculator, and for the grapher at x_value
CalcFinal == PyEval(prepare_expression(expression), CalcContext)
GraphFinal == PyEval(parse_function(func_string), GraphContext(x_value))

IsFiniteNumber(v) == v.k \in {"num", "real"}

\* C15: a value returned by evaluate_expression or by Grapher.evaluate is a
\* finite number; when eval ends with a value that is complex, infinite,
\* NaN or not a number at all, evaluate_expression raises its error and
\* Grapher.evaluate returns None
C15_ReturnedValuesAreFiniteNumbers ==
    /\ Evaluated =>
          /\ result.out.status = "ok" => IsFiniteNumber(result.out.value)
          /\ (CalcFinal.t = "val" /\ ~IsFiniteNumber(CalcFinal.v)) => result.out.status = "error"
    /\ plot.call = "evaluate" =>
          /\ plot.out.t = "value" => IsFiniteNumber(plot.out.v)
          /\ (GraphFinal.t = "val" /\ ~IsFiniteNumber(GraphFinal.v)) => plot.out = NoValue

\* a text whose value is infinite or NaN has been through both engines
C15_Witness ==
    /\ Evaluated /\ CalcFinal.t = "val" /\ NonFinite(CalcFinal.v)
    /\ result.out.status = "error"
    /\ plot.call = "evaluate" /\ GraphFinal.t = "val" /\ NonFinite(GraphFinal.v)
    /\ plot.out = NoValue

\* the text holds an operator the fixed grammar does not have: "**", "//",
\* or a "+" where only an operand can start
HasDoubleOperator(t) == \E i \in 1..(Len(t) - 1) : t[i] \in {"*", "/"} /\ t[i + 1] = t[i]
HasUnaryPlus(t) ==
    \E i \in 1..Len(t) : t[i] = "+" /\ (i = 1 \/ t[i - 1] \in {"+", "-", "*", "/", "^", "(", ","})
OutsideGrammar(t) == HasDoubleOperator(t) \/ HasUnaryPlus(t)

\* C16: a text that passes the character check and holds "**", "//" or a
\* unary "+" is not evaluated: evaluate_expression raises the syntax error
\* and Grapher.evaluate gives no value
C16_OutsideGrammarIsSyntaxError ==
    /\ (Evaluated /\ validate_expression(expression).status = "ok" /\ OutsideGrammar(expression))
          => result.out = Error("Invalid expression syntax", <<>>)
    /\ (plot.call = "evaluate" /\ OutsideGrammar(func_string)) => plot.out.t # "value"

----------------------------------------------------------------------------
(* CalculatorApp: the graph panel (src/frontend/gui.py) *)

\* len(PLOT_COLORS)
NumColors == 10

\* an index into plotted_functions or into the listbox, counted from 0
Index(i) == [k |-> "int", i |-> i]

\* 0 <= index < len(self.plotted_functions)
InList(p, index) == 0 <= index.i /\ index.i < Len(p.plotted_functions)

\* one element of plotted_functions: (func_string, x_vals, y_vals, color)
Entry(f, data, color) ==
    [func_string |-> f, x_vals |-> data.x_values, y_vals |-> data.y_values, color |-> color]

\* self.grapher.generate_plot_data(func_string, x_min, x_max, 500)
PanelPlot(f, lo, hi) == generate_plot_data(f, lo, hi, PanelPoints)

\* the range entries, which hold numerals here, pass the test of line 386
RangeAccepted(p) == RLess(p.x_min_var, p.x_max_var)

\* CalculatorApp._get_next_color, as an index into PLOT_COLORS
get_next_color(p) == Len(p.plotted_functions) % NumColors

\* CalculatorApp._cancel_edit
cancel_edit(p) ==
    [p EXCEPT !.editing_index = None, !.function_var = <<>>, !.selection = None]

\* CalculatorApp._update_function_list: the listbox is emptied and refilled
update_function_list(p) ==
    [p EXCEPT !.listbox = [i \in 1..Len(p.plotted_functions) |-> p.plotted_functions[i].func_string],
              !.selection = None]

\* CalculatorApp._on_function_select
on_function_select(p) ==
    IF p.selection = None THEN p
    ELSE IF InList(p, p.selection)
         THEN [p EXCEPT !.function_var = p.plotted_functions[p.selection.i + 1].func_string,
                        !.editing_index = p.selection]
    ELSE p

\* lines 391-426 of _add_or_update_function, data being what
\* generate_plot_data gave for func
StoreFunction(p, func, data) ==
    IF p.editing_index # None
    THEN (IF data.status # "ok" THEN p
          ELSE update_function_list(cancel_edit(
                   [p EXCEPT !.plotted_functions[p.editing_index.i + 1] =
                                 Entry(func, data, p.plotted_functions[p.editing_index.i + 1].color)])))
    ELSE IF \E i \in 1..Len(p.plotted_functions) : p.plotted_functions[i].func_string = func
         THEN p
    ELSE IF data.status # "ok" THEN p
    ELSE update_function_list(
             [p EXCEPT !.plotted_functions = Append(@, Entry(func, data, get_next_color(p))),
                       !.function_var = <<>>])

\* CalculatorApp._add_or_update_function
add_or_update_function(p, data) ==
    IF strip(p.function_var) = <<>> \/ ~RangeAccepted(p) THEN p
    ELSE StoreFunction(p, strip(p.function_var), data)

\* s without its element at index i, counted from 0: list.pop(i)
Pop(s, i) == SubSeq(s, 1, i) \o SubSeq(s, i + 2, Len(s))

\* a variant that leaves the edit mode alone
remove_keeping_edit(p) ==
    IF p.selection = None THEN p
    ELSE IF InList(p, p.selection)
         THEN update_function_list([p EXCEPT !.plotted_functions = Pop(@, p.selection.i)])
    ELSE p

\* CalculatorApp._remove_selected_function
remove_selected_function(p) ==
    IF p.selection = None THEN p
    ELSE IF InList(p, p.selection)
         THEN update_function_list(cancel_edit([p EXCEPT !.plotted_functions = Pop(@, p.selection.i)]))
    ELSE p

\* CalculatorApp._replot_all, datas being what generate_plot_data gave for
\* each plotted function: the list is replaced only when no call raised
replot_all(p, datas) ==
    IF p.plotted_functions = <<>> \/ ~RangeAccepted(p) THEN p
    ELSE IF \E i \in 1..Len(datas) : datas[i].status # "ok" THEN p
    ELSE [p EXCEPT !.plotted_functions =
              [i \in 1..Len(datas) |->
                  Entry(p.plotted_functions[i].func_string, datas[i], p.plotted_functions[i].color)]]

\* CalculatorApp._clear_graph
clear_graph(p) == update_function_list(cancel_edit([p EXCEPT !.plotted_functions = <<>>]))

----------------------------------------------------------------------------
(* The graph panel in use *)

\* what a step of the graph panel leaves alone
OutsidePanel == UNCHANGED <<calcVars, graphVars, app, event, presses>>

\* the texts typed into the function entry: two that plot, one that no
\* point evaluates, and one that raises TypeError
PanelFunctions == {<<"x">>, <<" ", "2">>, <<"y">>, <<"+", "(", ")">>}

\* the texts typed into the range entries
PanelRanges == {<<Whole(-10), Whole(10)>>, <<Zero, One>>, <<One, Zero>>}

\* the user types into the function entry
TypeFunction(f) ==
    /\ panel' = [panel EXCEPT !.function_var = f]
    /\ OutsidePanel

\* the user types into the two range entries
TypeRange(lo, hi) ==
    /\ panel' = [panel EXCEPT !.x_min_var = lo, !.x_max_var = hi]
    /\ OutsidePanel

\* the user clicks item i of the listbox
SelectFunction(i) ==
    /\ i < Len(panel.listbox)
    /\ panel' = on_function_select([panel EXCEPT !.selection = Index(i)])
    /\ OutsidePanel

\* the listbox loses its selection to another widget
LoseSelection ==
    /\ panel.selection # None
    /\ panel' = on_function_select([panel EXCEPT !.selection = None])
    /\ OutsidePanel

\* the plot of the function entry over the range entries
EntryPlot(p) ==
    IF RangeAccepted(p) THEN PanelPlot(strip(p.function_var), p.x_min_var, p.x_max_var)
    ELSE PlotNotModelled

\* Add / Update, or Return in the function entry
AddThen(data) ==
    /\ RangeAccepted(panel) => data.status # "unmodelled"
    /\ panel' = add_or_update_function(panel, data)

ClickAdd ==
    /\ Len(panel.plotted_functions) < MaxFunctions \/ panel.editing_index # None
    /\ AddThen(EntryPlot(panel))
    /\ OutsidePanel

\* Cancel Edit, enabled in edit mode
ClickCancel ==
    /\ panel.editing_index # None
    /\ panel' = cancel_edit(panel)
    /\ OutsidePanel

ClickRemove ==
    /\ panel' = remove_selected_function(panel)
    /\ OutsidePanel

\* the plots of every plotted function over the range entries
ListPlots(p) ==
    IF RangeAccepted(p)
    THEN [i \in 1..Len(p.plotted_functions) |->
             PanelPlot(p.plotted_functions[i].func_string, p.x_min_var, p.x_max_var)]
    ELSE <<>>

ReplotThen(datas) ==
    /\ \A i \in 1..Len(datas) : datas[i].status # "unmodelled"
    /\ panel' = replot_all(panel, datas)

ClickReplot ==
    /\ ReplotThen(ListPlots(panel))
    /\ OutsidePanel

ClickClear ==
    /\ panel' = clear_graph(panel)
    /\ OutsidePanel

GraphPanelInit ==
    /\ last_result = Zero /\ expression = <<>> /\ result = Idle
    /\ GraphIdle /\ GuiIdle

GraphPanelNext ==
    \/ \E f \in PanelFunctions : TypeFunction(f)
    \/ \E r \in PanelRanges : TypeRange(r[1], r[2])
    \/ \E i \in 0..(MaxFunctions - 1) : SelectFunction(i)
    \/ LoseSelection
    \/ ClickAdd
    \/ ClickCancel
    \/ ClickRemove
    \/ ClickReplot
    \/ ClickClear

SpecGraphPanel == GraphPanelInit /\ [][GraphPanelNext]_vars

----------------------------------------------------------------------------
(* Properties of the graph panel *)

\* editing_index is None or an index into plotted_functions
ValidEditingIndex(p) == p.editing_index = None \/ InList(p, p.editing_index)

\* q, the panel after Add/Update on p in edit mode, has the list of p, entry
\* for entry, but for the function and the data of the edited one
UpdateKeeps(p, q) ==
    /\ Len(q.plotted_functions) = Len(p.plotted_functions)
    /\ \A j \in 1..Len(p.plotted_functions) :
          /\ q.plotted_functions[j].color = p.plotted_functions[j].color
          /\ j # p.editing_index.i + 1 => q.plotted_functions[j] = p.plotted_functions[j]

\* C17: after any sequence of typing, selecting, Add/Update, Cancel Edit,
\* Remove, Replot and Clear All, failed ones included, editing_index is None
\* or 0 <= editing_index < len(plotted_functions), and an Add/Update in edit
\* mode keeps the length of the list and the place and colour of every entry
C17_EditingIndexValid ==
    /\ ValidEditingIndex(panel)
    /\ panel.editing_index # None =>
          UpdateKeeps(panel, add_or_update_function(panel, EntryPlot(panel)))

\* two entries with the same function: the second got it by an update, as
\* an add refuses a function already plotted
C17_Witness ==
    /\ Len(panel.plotted_functions) = 2
    /\ panel.plotted_functions[1].func_string = panel.plotted_functions[2].func_string
    /\ panel.plotted_functions[1].color # panel.plotted_functions[2].color
    /\ panel.editing_index = None

====
